---------------------------- MODULE Spec2Model ----------------------------
(***************************************************************************)
(* kudu::faststring (src/util/faststring.h): a growable byte buffer with   *)
(* an inline array of kInitialCapacity bytes and a heap array once the     *)
(* capacity exceeds it.                                                    *)
(*                                                                         *)
(* A faststring object is a record                                         *)
(*    data_         "initial_data_" or "heap": where the pointer data_     *)
(*                  points (data_ == initial_data_ or a new[] array)       *)
(*    initial_data_ the inline array, kInitialCapacity cells               *)
(*    heap          the cells of the heap array data_ points to, <<>> when *)
(*                  data_ == initial_data_                                 *)
(*    len_, capacity_                                                      *)
(* A cell is a byte 0..255 or Indeterminate (never written since the array *)
(* was created).  Byte i of the C++ array is cell i+1 of the sequence.     *)
(***************************************************************************)
EXTENDS Integers, Sequences, FiniteSets

\* enum { kInitialCapacity = 32 }
kInitialCapacity == 32

\* The content of a cell of initial_data_ or of new uint8_t[n] that was never
\* written.
Indeterminate == -1

\* Number of operations applied to the object after its construction.
MaxOps == 2

\* Bound on the number of calls made in a run that reuses a released buffer.
MaxReuseOps == 4

Max(a, b) == IF a >= b THEN a ELSE b

\* new uint8_t[n]
NewArray(n) == [i \in 1..n |-> Indeterminate]

\* The array data_ points to.
Data(b) == IF b.data_ = "initial_data_" THEN b.initial_data_ ELSE b.heap

\* A store through data_: the array data_ points to becomes arr.
SetData(b, arr) ==
    IF b.data_ = "initial_data_"
    THEN [b EXCEPT !.initial_data_ = arr]
    ELSE [b EXCEPT !.heap = arr]

\* faststring(): data_(initial_data_), len_(0), capacity_(kInitialCapacity)
Default ==
    [ data_         |-> "initial_data_",
      initial_data_ |-> NewArray(kInitialCapacity),
      heap          |-> << >>,
      len_          |-> 0,
      capacity_     |-> kInitialCapacity ]

\* Mutant of WithCapacity: the test is capacity >= capacity_.
WithCapacity_ge(capacity) ==
    IF capacity >= Default.capacity_
    THEN [Default EXCEPT !.data_ = "heap",
                         !.heap = NewArray(capacity),
                         !.capacity_ = capacity]
    ELSE Default

\* explicit faststring(size_t capacity)
WithCapacity(capacity) ==
    IF capacity > Default.capacity_
    THEN [Default EXCEPT !.data_ = "heap",
                         !.heap = NewArray(capacity),
                         !.capacity_ = capacity]
    ELSE Default

\* GrowArray(newcapacity): a new array of exactly newcapacity bytes, the first
\* len_ bytes copied, the old heap array deleted, the new array adopted.
\* (Defined in faststring.cc; modelled from the description of reserve.)
GrowArray(b, newcapacity) ==
    [b EXCEPT !.heap = [i \in 1..newcapacity |->
                          IF i <= b.len_ THEN Data(b)[i] ELSE Indeterminate],
              !.data_ = "heap",
              !.capacity_ = newcapacity]

\* GrowByAtLeast(count): grow to max(len_ + count, capacity_ + capacity_/2).
\* (Defined in faststring.cc; modelled from the described growth policy.)
GrowByAtLeast(b, count) ==
    GrowArray(b, Max(b.len_ + count, b.capacity_ + (b.capacity_ \div 2)))

\* Mutant of reserve: the test is newcapacity < capacity_.
reserve_lt(b, newcapacity) ==
    IF newcapacity < b.capacity_ THEN b ELSE GrowArray(b, newcapacity)

\* void reserve(size_t newcapacity)
reserve(b, newcapacity) ==
    IF newcapacity <= b.capacity_ THEN b ELSE GrowArray(b, newcapacity)

\* Mutant of resize: the array is reallocated to fit newsize, also when
\* newsize is below the capacity.
resize_shrink(b, newsize) ==
    LET r == IF newsize # b.capacity_
             THEN GrowArray([b EXCEPT !.len_ = IF newsize < b.len_ THEN newsize ELSE b.len_],
                            newsize)
             ELSE b
    IN  [r EXCEPT !.len_ = newsize]

\* Mutant of resize: growth goes through GrowByAtLeast instead of reserve.
resize_geometric(b, newsize) ==
    LET r == IF newsize > b.capacity_ THEN GrowByAtLeast(b, newsize - b.len_) ELSE b
    IN  [r EXCEPT !.len_ = newsize]

\* void resize(size_t newsize)
resize(b, newsize) ==
    LET r == IF newsize > b.capacity_ THEN reserve(b, newsize) ELSE b
    IN  [r EXCEPT !.len_ = newsize]

\* void clear()
clear(b) == resize(b, 0)

\* The array release() returns: a new uint8_t[len_] copy of the inline bytes,
\* or the heap array itself.
releaseRet(b) ==
    IF b.data_ = "initial_data_"
    THEN [i \in 1..b.len_ |-> b.initial_data_[i]]
    ELSE b.heap

\* Mutant of release: capacity_ is not reset.
release_keep_capacity(b) ==
    [b EXCEPT !.len_ = 0,
              !.data_ = "initial_data_",
              !.heap = << >>]

\* uint8_t *release(): the object after the call.
release(b) ==
    [b EXCEPT !.len_ = 0,
              !.capacity_ = kInitialCapacity,
              !.data_ = "initial_data_",
              !.heap = << >>]

\* Mutant of EnsureRoomForAppend: the test is len_ + count < capacity_.
EnsureRoomForAppend_lt(b, count) ==
    IF b.len_ + count < b.capacity_ THEN b ELSE GrowByAtLeast(b, count)

\* void EnsureRoomForAppend(size_t count)
EnsureRoomForAppend(b, count) ==
    IF b.len_ + count <= b.capacity_ THEN b ELSE GrowByAtLeast(b, count)

\* for (int i = 0; i < count; i++) *p++ = *src++;  with p = &data_[len_]
RECURSIVE CopyLoop(_, _, _, _)
CopyLoop(arr, p, src, i) ==
    IF i < Len(src)
    THEN CopyLoop([arr EXCEPT ![p + 1] = src[i + 1]], p + 1, src, i + 1)
    ELSE arr

\* strings::memcpy_inlined(dst, src, count) / memcpy(dst, src, count) with
\* dst = &arr[off]
Memcpy(arr, off, src) ==
    [i \in 1..Len(arr) |->
        IF i > off /\ i <= off + Len(src) THEN src[i - off] ELSE arr[i]]

\* Mutant of append: the bytes are copied to &data_[0] instead of &data_[len_].
append_at_start(b, src) ==
    LET count == Len(src)
        r     == EnsureRoomForAppend(b, count)
        arr   == IF count <= 4
                 THEN CopyLoop(Data(r), 0, src, 0)
                 ELSE Memcpy(Data(r), 0, src)
    IN  [SetData(r, arr) EXCEPT !.len_ = r.len_ + count]

\* void append(const void *src_v, size_t count); src holds the count bytes.
append(b, src) ==
    LET count == Len(src)
        r     == EnsureRoomForAppend(b, count)
        arr   == IF count <= 4
                 THEN CopyLoop(Data(r), r.len_, src, 0)
                 ELSE Memcpy(Data(r), r.len_, src)
    IN  [SetData(r, arr) EXCEPT !.len_ = r.len_ + count]

\* void push_back(const char byte): the char is stored into a uint8_t.
push_back(b, byte) ==
    LET r == EnsureRoomForAppend(b, 1)
    IN  [SetData(r, [Data(r) EXCEPT ![r.len_ + 1] = byte % 256])
           EXCEPT !.len_ = r.len_ + 1]

\* Mutant of assign_copy: len_ is not reset and the bytes are copied after
\* the old contents.
assign_copy_no_reset(b, src) ==
    LET r == resize(b, b.len_ + Len(src))
    IN  SetData(r, Memcpy(Data(r), b.len_, src))

\* void assign_copy(const uint8_t *src, size_t len)
assign_copy(b, src) ==
    LET z == [b EXCEPT !.len_ = 0]
        r == resize(z, Len(src))
    IN  SetData(r, Memcpy(Data(r), 0, src))

\* std::string ToString() const
ToString(b) == [i \in 1..b.len_ |-> Data(b)[i]]

\* The while loop of AdvanceToSuccessor from the given index; done is the
\* value returned.
RECURSIVE AdvanceLoop(_, _)
AdvanceLoop(b, index) ==
    IF index < 0
    THEN [buf |-> b, done |-> FALSE]
    ELSE IF Data(b)[index + 1] = 255
         THEN AdvanceLoop(b, index - 1)
         ELSE [buf  |-> resize(SetData(b, [Data(b) EXCEPT ![index + 1] = (@ + 1) % 256]),
                               index + 1),
               done |-> TRUE]

\* Mutant of AdvanceToSuccessor: the scan shortens the buffer at every 0xFF
\* byte it passes, so a failing call leaves it truncated.
RECURSIVE AdvanceLoop_truncating(_, _)
AdvanceLoop_truncating(b, index) ==
    IF index < 0
    THEN [buf |-> b, done |-> FALSE]
    ELSE IF Data(b)[index + 1] = 255
         THEN AdvanceLoop_truncating(resize(b, index), index - 1)
         ELSE [buf  |-> resize(SetData(b, [Data(b) EXCEPT ![index + 1] = (@ + 1) % 256]),
                               index + 1),
               done |-> TRUE]

AdvanceToSuccessor_truncating(b) == AdvanceLoop_truncating(b, b.len_ - 1)

\* Mutant of AdvanceToSuccessor: the byte is incremented but the trailing 0xFF
\* bytes are kept (no resize(index+1)).
RECURSIVE AdvanceLoop_no_truncate(_, _)
AdvanceLoop_no_truncate(b, index) ==
    IF index < 0
    THEN [buf |-> b, done |-> FALSE]
    ELSE IF Data(b)[index + 1] = 255
         THEN AdvanceLoop_no_truncate(b, index - 1)
         ELSE [buf  |-> SetData(b, [Data(b) EXCEPT ![index + 1] = (@ + 1) % 256]),
               done |-> TRUE]

AdvanceToSuccessor_no_truncate(b) == AdvanceLoop_no_truncate(b, b.len_ - 1)

\* bool AdvanceToSuccessor()
AdvanceToSuccessor(b) == AdvanceLoop(b, b.len_ - 1)

\* uint8_t &operator[](size_t i) / uint8_t *data(): a store of byte at
\* offset i by the caller.
Store(b, i, byte) == SetData(b, [Data(b) EXCEPT ![i + 1] = byte])

\* The cells (1-based) the scan of AdvanceToSuccessor reaches for some content
\* of the never-written cells: every cell after them holds 0xFF or was never
\* written.
Reached(b) ==
    {i \in 1..b.len_ :
        \A j \in (i + 1)..b.len_ : Data(b)[j] \in {255, Indeterminate}}

\* The never-written cells among them: the scan reads an indeterminate
\* value in each one it gets to.
Unwritten(b) == {i \in Reached(b) : Data(b)[i] = Indeterminate}

\* The objects AdvanceToSuccessor may find: b with the never-written cells
\* its scan reads holding some bytes.  A scan that reads 0xFF in every such
\* cell after k and v # 0xFF in the never-written cell k stops at k; the cells
\* before k are not read and stay as they are.  k = 0: it reads 0xFF in all of
\* them.
Readings(b) ==
    LET d         == Data(b)
        unwritten == Unwritten(b)
        Found(k, v) ==
            SetData(b, [i \in 1..Len(d) |->
                          IF i = k THEN v
                          ELSE IF i > k /\ i \in unwritten THEN 255
                          ELSE d[i]])
    IN  {Found(0, 255)} \cup {Found(k, v) : k \in unwritten, v \in 0..254}

-----------------------------------------------------------------------------
(* The state machine: one faststring object and the calls made on it. *)

VARIABLES
    s,          \* the faststring object
    last,       \* the last call: op, its argument n or src, the object before
                \* the call (pre), the value returned (ret), the reference
                \* object before the call (refPre, when refWas), and whether
                \* the call read a never-written byte of s (sRead)
    nops,       \* number of calls made
    ref,        \* a faststring default-constructed at the last release(), on
                \* which every call made on s since then has been made too
    refActive,  \* release() has been called, and no call since then read a
                \* never-written byte of ref to decide what it does
    refRet,     \* what the last call returned on ref
    appended,   \* concatenation of the bytes appended since s was last empty
    tracking,   \* only append / push_back calls were made since s was last
                \* constructed, cleared or released
    run         \* which arguments the calls draw and how many calls are made:
                \* "calls" (many arguments, MaxOps calls) or "reuse" (few
                \* arguments, MaxReuseOps calls: write, release, use again)

vars == <<s, last, nops, ref, refActive, refRet, appended, tracking, run>>

-----------------------------------------------------------------------------
(* Inputs *)

\* The bytes base+1, base+2, ..., base+n.
Ramp(n, base) == [i \in 1..n |-> base + i]

\* Arguments of explicit faststring(size_t capacity).
CtorArgs == {0, 32, 33, 40}

\* The arguments of the calls and the number of calls made, by kind of run.
\*   append       "", "\xff\xff", "foo", five bytes (the memcpy path), thirty
\*                and fifty bytes; in a reuse run "foo" and thirty-three bytes
\*                (one more than the inline array holds)
\*   push_back    'a' and '\xff' (a signed char, -1)
\*   assign_copy  "", "ab\xff", "\xff\xff\x00", "aab\xff\xff" and forty bytes
\*   offsets, bytes  the stores made through operator[] / data()
Inputs ==
    [calls |-> [append      |-> { << >>, <<255, 255>>, <<102, 111, 111>>,
                                  Ramp(5, 0), Ramp(30, 100), Ramp(50, 200) },
                push_back   |-> {97, -1},
                reserve     |-> {0, 32, 33, 64},
                resize      |-> {0, 3, 33},
                assign_copy |-> { << >>, <<97, 98, 255>>, <<255, 255, 0>>,
                                  <<97, 97, 98, 255, 255>>, Ramp(40, 10) },
                offsets     |-> {0, 2},
                bytes       |-> {102, 255},
                calls       |-> MaxOps],
     reuse |-> [append      |-> { <<102, 111, 111>>, Ramp(33, 100) },
                push_back   |-> {-1},
                reserve     |-> {33},
                resize      |-> {3},
                assign_copy |-> { <<255, 255, 0>> },
                offsets     |-> {0},
                bytes       |-> {255},
                calls       |-> MaxReuseOps]]

AppendSrcs == Inputs[run].append

PushBytes == Inputs[run].push_back

ReserveArgs == Inputs[run].reserve

ResizeArgs == Inputs[run].resize

AssignSrcs == Inputs[run].assign_copy

StoreOffsets == Inputs[run].offsets

StoreBytes == Inputs[run].bytes

\* The number of calls made in the run.
Calls == Inputs[run].calls

-----------------------------------------------------------------------------
(* Construction and calls *)

\* The value of a call that returns nothing.
Void == [done |-> FALSE, str |-> << >>]

Constructed ==
    /\ last = [op |-> "faststring", n |-> 0, src |-> << >>, pre |-> s, ret |-> Void,
               refWas |-> FALSE, refPre |-> Default, sRead |-> FALSE]
    /\ nops = 0
    /\ ref = Default
    /\ refActive = FALSE
    /\ refRet = Void
    /\ appended = << >>
    /\ tracking = TRUE

Init ==
    /\ run = "calls"
    /\ s \in {Default} \cup {WithCapacity(c) : c \in CtorArgs}
    /\ Constructed

\* A reuse run starts from the default constructor.
InitReuse ==
    /\ run = "reuse"
    /\ s = Default
    /\ Constructed

\* A call op(n) or op(src) that takes the object from pre to post and returns
\* rv, and ref to refPost returning refRv.  pre is s, or s with the
\* never-written bytes the call read as the call found them.  refOk: what
\* the call does on ref does not depend on a never-written byte; otherwise
\* the run of ref is one of many and is followed no further.
Call(op, n, src, pre, post, rv, refPost, refRv, refOk) ==
    /\ nops < Calls
    /\ nops' = nops + 1
    /\ s' = post
    /\ last' = [op |-> op, n |-> n, src |-> src, pre |-> pre, ret |-> rv,
                refWas |-> refActive,
                refPre |-> IF refActive THEN ref ELSE Default,
                sRead |-> pre # s]
    /\ refActive' = (refActive /\ refOk)
    /\ ref' = IF refActive /\ refOk THEN refPost ELSE Default
    /\ refRet' = IF refActive /\ refOk THEN refRv ELSE Void
    /\ appended' = IF op \in {"append", "push_back"} THEN appended \o src ELSE << >>
    /\ tracking' = IF op \in {"append", "push_back"} THEN tracking ELSE op = "clear"
    /\ UNCHANGED run

OpClear ==
    Call("clear", 0, << >>, s, clear(s), Void, clear(ref), Void, TRUE)

OpResize ==
    \E n \in ResizeArgs :
        Call("resize", n, << >>, s, resize(s, n), Void, resize(ref, n), Void, TRUE)

OpReserve ==
    \E n \in ReserveArgs :
        Call("reserve", n, << >>, s, reserve(s, n), Void, reserve(ref, n), Void, TRUE)

OpAppend ==
    \E src \in AppendSrcs :
        Call("append", Len(src), src, s, append(s, src), Void, append(ref, src), Void,
             TRUE)

OpPushBack ==
    \E byte \in PushBytes :
        Call("push_back", byte, <<byte % 256>>, s, push_back(s, byte), Void,
             push_back(ref, byte), Void, TRUE)

OpAssignCopy ==
    \E src \in AssignSrcs :
        Call("assign_copy", Len(src), src, s, assign_copy(s, src), Void,
             assign_copy(ref, src), Void, TRUE)

OpStore ==
    \E i \in StoreOffsets, byte \in StoreBytes :
        Call("store", i, <<byte>>, s, Store(s, i, byte), Void,
             Store(ref, i, byte), Void, TRUE)

OpToString ==
    Call("ToString", 0, << >>, s, s, [done |-> FALSE, str |-> ToString(s)],
         ref, [done |-> FALSE, str |-> ToString(ref)], TRUE)

OpAdvance ==
    /\ nops < Calls
    /\ LET refR  == AdvanceToSuccessor(ref)
           refOk == Unwritten(ref) = {}
       IN  \E pre \in Readings(s) :
               LET r == AdvanceToSuccessor(pre)
               IN  Call("AdvanceToSuccessor", 0, << >>, pre, r.buf,
                        [done |-> r.done, str |-> << >>],
                        refR.buf, [done |-> refR.done, str |-> << >>], refOk)

OpRelease ==
    /\ nops < Calls
    /\ nops' = nops + 1
    /\ s' = release(s)
    /\ last' = [op |-> "release", n |-> 0, src |-> << >>, pre |-> s,
                ret |-> [done |-> FALSE, str |-> releaseRet(s)],
                refWas |-> FALSE, refPre |-> Default, sRead |-> FALSE]
    /\ ref' = Default
    /\ refActive' = TRUE
    /\ refRet' = [done |-> FALSE, str |-> releaseRet(s)]
    /\ appended' = << >>
    /\ tracking' = TRUE
    /\ UNCHANGED run

Next ==
    \/ OpClear
    \/ OpResize
    \/ OpReserve
    \/ OpAppend
    \/ OpPushBack
    \/ OpAssignCopy
    \/ OpStore
    \/ OpToString
    \/ OpAdvance
    \/ OpRelease

\* Runs of MaxOps calls from any constructor.
Spec == Init /\ [][Next]_vars

\* Runs of MaxReuseOps calls from the default constructor: long enough to
\* write the buffer, release it and use it again.
SpecReuse == InitReuse /\ [][Next]_vars

-----------------------------------------------------------------------------
(* Properties *)

\* The bytes [0, len_) of the object before and after the last call.
Old == ToString(last.pre)
New == ToString(s)

\* C1: after any sequence of append(src, count), append(string) and push_back
\* calls on an empty buffer, length() is the sum of the appended counts and
\* bytes [0, length) are the concatenation of the appended bytes in call order.
C1_AppendsConcatenate ==
    tracking => /\ s.len_ = Len(appended)
                /\ New = appended

\* C1 witness: a short append (byte loop) onto earlier appended bytes that
\* made the storage grow.
C1_Witness ==
    /\ tracking
    /\ last.op = "append"
    /\ last.n \in 1..4
    /\ last.pre.len_ > 4
    /\ s.capacity_ > last.pre.capacity_

\* C2 as claimed: no call, release included, leaves capacity() smaller than it
\* was before the call.
C2_CapacityNeverDecreases ==
    s.capacity_ >= last.pre.capacity_

\* C2 amended: no call other than release leaves capacity() smaller than it
\* was; release sets it to kInitialCapacity.
C2_CapacityMonotoneExceptRelease ==
    IF last.op = "release"
    THEN s.capacity_ = kInitialCapacity
    ELSE s.capacity_ >= last.pre.capacity_

\* C2 witness: a call that shortens a buffer held in heap storage.
C2_Witness ==
    /\ last.op \in {"clear", "resize", "assign_copy", "AdvanceToSuccessor"}
    /\ last.pre.data_ = "heap"
    /\ s.len_ < last.pre.len_
    /\ s.capacity_ = last.pre.capacity_

\* Whether str agrees with the bytes refStr of the reference object wherever
\* the reference object's byte was written: the same length, and the same
\* byte in every written cell.
Matches(refStr, str) ==
    /\ Len(refStr) = Len(str)
    /\ \A i \in 1..Len(refStr) : refStr[i] = Indeterminate \/ refStr[i] = str[i]

\* release() leaves length 0, capacity kInitialCapacity and inline storage.
ReleaseResets ==
    last.op = "release" =>
        /\ s.len_ = 0
        /\ s.capacity_ = kInitialCapacity
        /\ s.data_ = "initial_data_"

\* C3 as claimed: release() resets the object, and every call made afterwards
\* gives the length, capacity, contents and result it gives on a freshly
\* default-constructed buffer.  A byte written in neither buffer counts as
\* the same in both; and a result is compared only when the call read no
\* never-written byte of s, against every result the fresh buffer can give.
C3_ReleaseIsFresh ==
    /\ ReleaseResets
    /\ refActive =>
          /\ s.len_ = ref.len_
          /\ s.capacity_ = ref.capacity_
          /\ s.data_ = ref.data_
          /\ ToString(ref) = New
          /\ last.ret = refRet
    /\ (last.refWas /\ last.op = "AdvanceToSuccessor" /\ ~last.sRead) =>
          \A found \in Readings(last.refPre) :
              LET r == AdvanceToSuccessor(found)
              IN  /\ r.done = last.ret.done
                  /\ ToString(r.buf) = New

\* C3 amended: release() resets the object, and as long as no call reads a
\* byte never written since the release, every call made afterwards gives the
\* length, capacity, storage and result it gives on a freshly
\* default-constructed buffer, and the same contents in every byte written
\* since the release.
C3_ReleaseIsFreshWhereWritten ==
    /\ ReleaseResets
    /\ refActive =>
          /\ s.len_ = ref.len_
          /\ s.capacity_ = ref.capacity_
          /\ s.data_ = ref.data_
          /\ Matches(ToString(ref), New)
          /\ last.ret.done = refRet.done
          /\ Matches(refRet.str, last.ret.str)

\* C3 witness: a buffer written in its inline array, released and resized
\* shows a byte stored before the release where the fresh buffer shows a
\* never-written one, and a call made on both after that changes both alike.
C3_Witness ==
    /\ refActive
    /\ last.refWas
    /\ last.op \in {"push_back", "append"}
    /\ s.len_ > 1
    /\ New[1] # Indeterminate
    /\ ToString(ref)[1] = Indeterminate

\* C4: 0 <= length <= capacity, capacity >= kInitialCapacity, and the storage
\* is inline exactly when capacity = kInitialCapacity.
C4_Invariants ==
    /\ 0 <= s.len_
    /\ s.len_ <= s.capacity_
    /\ s.capacity_ >= kInitialCapacity
    /\ (s.data_ = "initial_data_") <=> (s.capacity_ = kInitialCapacity)
    /\ Len(Data(s)) = s.capacity_

\* C4 witness: a non-empty buffer in heap storage is released.
C4_Witness ==
    /\ last.op = "release"
    /\ last.pre.data_ = "heap"
    /\ last.pre.len_ > 0

\* C5: reserve(n) with n <= capacity changes nothing; with n > capacity it
\* makes capacity exactly n and leaves length and bytes [0, length) as they
\* were.
C5_ReserveFrame ==
    last.op = "reserve" =>
        IF last.n <= last.pre.capacity_
        THEN s = last.pre
        ELSE /\ s.capacity_ = last.n
             /\ s.len_ = last.pre.len_
             /\ New = Old

\* C5 witness: reserve beyond the capacity of a non-empty buffer.
C5_Witness ==
    /\ last.op = "reserve"
    /\ last.n > last.pre.capacity_
    /\ last.pre.len_ > 0

\* Byte-wise lexicographic order, a < b: at the first offset where they
\* differ a has the smaller byte, or a is a proper prefix of b.
LexLess(a, b) ==
    \E i \in 1..Len(b) :
        /\ i <= Len(a) + 1
        /\ \A j \in 1..(i - 1) : a[j] = b[j]
        /\ (i = Len(a) + 1 \/ a[i] < b[i])

\* Length up to which every candidate successor is enumerated.
MaxSuccLen == 3

\* The byte sequences no longer than str over 0, 255, the bytes of str and
\* the bytes one above them.
Candidates(str) ==
    LET alphabet == {0, 255} \cup {str[i] : i \in 1..Len(str)}
                             \cup {IF str[i] < 255 THEN str[i] + 1 ELSE 255
                                      : i \in 1..Len(str)}
    IN  UNION {[1..k -> alphabet] : k \in 0..Len(str)}

\* Whether str has a byte other than 0xFF.
HasNonFF(str) == \E i \in 1..Len(str) : str[i] # 255

\* The offset (1-based) of the last byte of str other than 0xFF.
LastNonFF(str) ==
    CHOOSE k \in 1..Len(str) :
        str[k] # 255 /\ \A j \in (k + 1)..Len(str) : str[j] = 255

\* C6: AdvanceToSuccessor() returns true exactly when some byte is not 0xFF;
\* then the new contents are the old contents cut just after the last
\* non-0xFF byte, that byte incremented, which is the smallest byte sequence
\* strictly greater than the old contents and no longer than them.
C6_AdvanceToSuccessor ==
    last.op = "AdvanceToSuccessor" =>
        /\ last.ret.done <=> HasNonFF(Old)
        /\ last.ret.done =>
              /\ LET k == LastNonFF(Old)
                 IN  New = [i \in 1..k |-> IF i = k THEN Old[i] + 1 ELSE Old[i]]
              /\ Len(New) <= Len(Old)
              /\ LexLess(Old, New)
              /\ (Len(Old) <= MaxSuccLen /\ \A i \in 1..Len(Old) : Old[i] # Indeterminate) =>
                    \A t \in Candidates(Old) :
                        LexLess(Old, t) => ~LexLess(t, New)

\* C6 witness: a successful call on written bytes that drops a trailing 0xFF
\* byte.
C6_Witness ==
    /\ last.op = "AdvanceToSuccessor"
    /\ last.ret.done
    /\ Len(Old) <= MaxSuccLen
    /\ \A i \in 1..Len(Old) : Old[i] # Indeterminate
    /\ Len(New) > 1
    /\ Len(New) < Len(Old)

\* C7: assign_copy(src, len) followed by ToString() yields exactly the len
\* bytes of src, whatever the buffer held and whether or not len exceeds the
\* capacity.
C7_AssignCopyToString ==
    last.op = "assign_copy" =>
        /\ s.len_ = Len(last.src)
        /\ New = last.src

\* C7 witness: an assign_copy longer than the capacity of a non-empty buffer.
C7_Witness ==
    /\ last.op = "assign_copy"
    /\ last.pre.len_ > 0
    /\ last.n > last.pre.capacity_

\* C8 as claimed: resize(newLength) with newLength > capacity leaves capacity
\* max(newLength, capacity + capacity/2) and length newLength.
C8_ResizeGrowsGeometrically ==
    (last.op = "resize" /\ last.n > last.pre.capacity_) =>
        /\ s.capacity_ = Max(last.n, last.pre.capacity_ + (last.pre.capacity_ \div 2))
        /\ s.len_ = last.n

\* C8 amended: resize(newLength) with newLength > capacity grows through
\* reserve(newLength): capacity and length are both exactly newLength.
C8_ResizeGrowsExactly ==
    (last.op = "resize" /\ last.n > last.pre.capacity_) =>
        /\ s.capacity_ = last.n
        /\ s.len_ = last.n

\* C8 witness: a resize just above the capacity, below capacity + capacity/2.
C8_Witness ==
    /\ last.op = "resize"
    /\ last.n > last.pre.capacity_
    /\ last.n < last.pre.capacity_ + (last.pre.capacity_ \div 2)

\* C9: an append or push_back of count bytes with length + count > capacity
\* sets capacity to max(length + count, capacity + capacity/2), which is at
\* least capacity + capacity/2 and at least the new length; with
\* length + count <= capacity it leaves capacity unchanged.
C9_GrowthPolicy ==
    last.op \in {"append", "push_back"} =>
        LET count == Len(last.src)
            len   == last.pre.len_
            cap   == last.pre.capacity_
        IN  IF len + count > cap
            THEN /\ s.capacity_ = Max(len + count, cap + (cap \div 2))
                 /\ s.capacity_ >= cap + (cap \div 2)
                 /\ s.capacity_ >= s.len_
                 /\ s.len_ = len + count
            ELSE s.capacity_ = cap

\* C9 witness: a push_back onto a full buffer.
C9_Witness ==
    /\ last.op = "push_back"
    /\ last.pre.len_ = last.pre.capacity_
    /\ s.capacity_ > last.pre.capacity_

\* C10 as claimed: a failing AdvanceToSuccessor() on a non-empty buffer of
\* 0xFF bytes leaves the length smaller than it was.
C10_FailureTruncates ==
    (last.op = "AdvanceToSuccessor" /\ ~last.ret.done /\ last.pre.len_ > 0) =>
        s.len_ < last.pre.len_

\* C10 amended: a failing AdvanceToSuccessor() leaves the buffer as it was:
\* the scan moves a local index, not the length.
C10_FailureLeavesBuffer ==
    (last.op = "AdvanceToSuccessor" /\ ~last.ret.done) =>
        /\ s.len_ = last.pre.len_
        /\ s = last.pre

\* C10 witness: a failing call on a buffer of several 0xFF bytes.
C10_Witness ==
    /\ last.op = "AdvanceToSuccessor"
    /\ ~last.ret.done
    /\ last.pre.len_ > 1
    /\ \A i \in 1..Len(Old) : Old[i] = 255

=============================================================================
